---------------------------- MODULE Spec2Model ----------------------------
(***************************************************************************)
(* Model of man/90-rearrange-path.py, the environment generator that reads *)
(* the *.conf files of a list of directories, merges their assignments and *)
(* rewrites PATH so that a bin directory precedes its sbin sibling.        *)
(*                                                                         *)
(* A Python str is a sequence of atoms.  An atom is one character, except  *)
(* the three words "sbin", "bin" and "PATH", which stand for their letters *)
(* (no other atom is a letter of them, so every sequence of atoms spells   *)
(* exactly one str and two sequences spell the same str only when equal).  *)
(* A text file is the sequence of its physical lines, without the line     *)
(* terminator (rstrip removes it in the code before anything reads it).    *)
(***************************************************************************)
EXTENDS Naturals, Sequences, FiniteSets, TLC

VARIABLES
    dirs,    \* sys.argv[1:], the directory list, lowest priority first
    fs,      \* the files: <<directory, name>> -> lines
    pc,      \* where rearrange_path stands
    env,     \* rearrange_path's env
    path,    \* rearrange_path's path
    new,     \* rearrange_path's new
    writes,  \* the open(..., 'w') calls made so far, with the text written
    tmpl     \* how the value of the input's last line was put together

vars == <<dirs, fs, pc, env, path, new, writes, tmpl>>

-----------------------------------------------------------------------------
(* str helpers *)

\* \w of the re module
IsWord(c) == c \in {"A", "K", "x", "y", "sbin", "bin", "PATH"}

\* str.rstrip(): the only whitespace atom is the blank
RECURSIVE rstrip(_)
rstrip(s) ==
    IF s # <<>> /\ s[Len(s)] = " " THEN rstrip(SubSeq(s, 1, Len(s) - 1)) ELSE s

\* str.startswith(c) / str.endswith(c) for a one-character c
startswith(s, c) == s # <<>> /\ s[1] = c

endswith(s, c) == s # <<>> /\ s[Len(s)] = c

\* index of the first c in s, 0 when there is none
RECURSIVE find(_, _, _)
find(s, c, from) ==
    IF from > Len(s) THEN 0
    ELSE IF s[from] = c THEN from
    ELSE find(s, c, from + 1)

\* str.partition(sep): head, separator, tail around the first sep
partition(line, sep) ==
    LET k == find(line, sep, 1) IN
    IF k = 0 THEN [var |-> line, op |-> <<>>, val |-> <<>>]
    ELSE [var |-> SubSeq(line, 1, k - 1), op |-> <<sep>>,
          val |-> SubSeq(line, k + 1, Len(line))]

\* str.split(sep): always at least one piece
RECURSIVE split(_, _)
split(s, sep) ==
    LET k == find(s, sep, 1) IN
    IF k = 0 THEN <<s>>
    ELSE <<SubSeq(s, 1, k - 1)>> \o split(SubSeq(s, k + 1, Len(s)), sep)

\* sep.join(items)
RECURSIVE join(_, _)
join(items, sep) ==
    IF items = <<>> THEN <<>>
    ELSE IF Len(items) = 1 THEN items[1]
    ELSE items[1] \o <<sep>> \o join(Tail(items), sep)

-----------------------------------------------------------------------------
(* update_env_from_file *)

\* replace_var: group 2 when it is non-empty, else group 1; env.get(name, '')
replace_var(e, group1, group2) ==
    LET name == IF group2 # <<>> THEN group2 ELSE group1 IN
    IF name \in DOMAIN e THEN e[name] ELSE <<>>

\* length of the longest run of \w atoms of s that starts at i
RECURSIVE wordrun(_, _)
wordrun(s, i) ==
    IF i <= Len(s) /\ IsWord(s[i]) THEN 1 + wordrun(s, i + 1) ELSE 0

\* faulty variant of re_sub: the pattern without its lookbehind, so that a
\* dollar behind a backslash is substituted too
RECURSIVE re_sub_no_lookbehind(_, _, _)
re_sub_no_lookbehind(e, val, i) ==
    IF i > Len(val) THEN <<>>
    ELSE
      LET dollar == val[i] = "$"
          w      == wordrun(val, i + 1)
          close  == IF i + 1 <= Len(val) /\ val[i + 1] = "{"
                    THEN find(val, "}", i + 2) ELSE 0
      IN
      IF dollar /\ w > 0
        THEN replace_var(e, SubSeq(val, i + 1, i + w), <<>>)
               \o re_sub_no_lookbehind(e, val, i + w + 1)
      ELSE IF dollar /\ close > 0
        THEN replace_var(e, SubSeq(val, i + 1, close),
                            SubSeq(val, i + 2, close - 1))
               \o re_sub_no_lookbehind(e, val, close + 1)
      ELSE <<val[i]>> \o re_sub_no_lookbehind(e, val, i + 1)

\* re.sub(r'(?<!\\)\$(\w+|\{([^}]*)\})', replace_var, val): one left-to-right
\* scan of val from position i; a replacement is emitted, never scanned again
RECURSIVE re_sub(_, _, _)
re_sub(e, val, i) ==
    IF i > Len(val) THEN <<>>
    ELSE
      LET dollar == val[i] = "$" /\ (i = 1 \/ val[i - 1] # "\\")
          w      == wordrun(val, i + 1)
          close  == IF i + 1 <= Len(val) /\ val[i + 1] = "{"
                    THEN find(val, "}", i + 2) ELSE 0
      IN
      IF dollar /\ w > 0
        THEN replace_var(e, SubSeq(val, i + 1, i + w), <<>>)
               \o re_sub(e, val, i + w + 1)
      ELSE IF dollar /\ close > 0
        THEN replace_var(e, SubSeq(val, i + 1, close),
                            SubSeq(val, i + 2, close - 1))
               \o re_sub(e, val, close + 1)
      ELSE <<val[i]>> \o re_sub(e, val, i + 1)

\* faulty variant of handle_line: env[var] is set to the raw value first, so
\* that the substitution sees the new value of var, not the old one
handle_line_assign_first(e, line) ==
    LET p == partition(line, "=") IN
    IF p.op = <<>> THEN e
    ELSE LET e1 == (p.var :> p.val) @@ e IN
         (p.var :> re_sub(e1, p.val, 1)) @@ e

\* handle_line: an assignment needs an "="; substitute, then env[var] = val
handle_line(e, line) ==
    LET p == partition(line, "=") IN
    IF p.op = <<>> THEN e
    ELSE (p.var :> re_sub(e, p.val, 1)) @@ e

\* faulty variant of read_lines: without the handle_line call after the loop
RECURSIVE read_lines_no_flush(_, _, _, _)
read_lines_no_flush(e, file, i, fullline) ==
    IF i > Len(file) THEN e
    ELSE IF startswith(file[i], "#")
      THEN read_lines_no_flush(e, file, i + 1, fullline)
    ELSE
      LET line == rstrip(file[i]) IN
      IF endswith(line, "\\")
        THEN read_lines_no_flush(e, file, i + 1,
                                 fullline \o SubSeq(line, 1, Len(line) - 1))
        ELSE read_lines_no_flush(handle_line(e, rstrip(fullline \o line)),
                                 file, i + 1, <<>>)

\* the loop over the physical lines from line i on, then the final flush
RECURSIVE read_lines(_, _, _, _)
read_lines(e, file, i, fullline) ==
    IF i > Len(file) THEN handle_line(e, rstrip(fullline))
    ELSE IF startswith(file[i], "#") THEN read_lines(e, file, i + 1, fullline)
    ELSE
      LET line == rstrip(file[i]) IN
      IF endswith(line, "\\")
        THEN read_lines(e, file, i + 1,
                        fullline \o SubSeq(line, 1, Len(line) - 1))
        ELSE read_lines(handle_line(e, rstrip(fullline \o line)),
                        file, i + 1, <<>>)

update_env_from_file(e, file) == read_lines(e, file, 1, <<>>)

-----------------------------------------------------------------------------
(* current_env *)

\* the file names of the model, in the order sorted() gives their strs
NameOrder ==
    <<"50-a.conf", "60-b.conf", "90-rearrange-path.conf", "95-z.conf", "README">>

\* fnmatch(name, '*.conf')
IsConf(name) ==
    name \in {"50-a.conf", "60-b.conf", "90-rearrange-path.conf", "95-z.conf"}

\* glob.glob(dir + '/*.conf'): the paths, <<directory, name>>, of dir's *.conf files
glob(f, dir) == {p \in DOMAIN f : p[1] = dir /\ IsConf(p[2])}

\* faulty variant of files_dict: the first directory that has a name keeps it
RECURSIVE files_dict_first_wins(_, _, _, _)
files_dict_first_wins(ds, f, i, acc) ==
    IF i > Len(ds) THEN acc
    ELSE
      LET found == {p[2] : p \in glob(f, ds[i])} IN
      files_dict_first_wins(ds, f, i + 1,
                 [n \in DOMAIN acc \cup found |->
                     IF n \in DOMAIN acc THEN acc[n] ELSE <<ds[i], n>>])

\* dict((Path(p).name, p) for dir in dirs for p in glob(...)): a later pair
\* replaces an earlier one with the same name
RECURSIVE files_dict(_, _, _, _)
files_dict(ds, f, i, acc) ==
    IF i > Len(ds) THEN acc
    ELSE
      LET found == {p[2] : p \in glob(f, ds[i])} IN
      files_dict(ds, f, i + 1,
                 [n \in DOMAIN acc \cup found |->
                     IF n \in found THEN <<ds[i], n>> ELSE acc[n]])

\* faulty variant of sorted_paths: sorted(files.values()), the order of the
\* whole paths, directory first
sorted_paths_by_path(files) ==
    LET byPath == [k \in 1..(2 * Len(NameOrder)) |->
                     <<IF k <= Len(NameOrder) THEN "etc" ELSE "lib",
                       NameOrder[((k - 1) % Len(NameOrder)) + 1]>>]
    IN SelectSeq(byPath, LAMBDA p : p[2] \in DOMAIN files /\ files[p[2]] = p)

\* [path for name, path in sorted(files.items())]
sorted_paths(files) ==
    LET names == SelectSeq(NameOrder, LAMBDA n : n \in DOMAIN files) IN
    [k \in 1..Len(names) |-> files[names[k]]]

\* for path in paths: update_env_from_file(env, path)
RECURSIVE read_paths(_, _, _, _)
read_paths(e, f, paths, i) ==
    IF i > Len(paths) THEN e
    ELSE read_paths(update_env_from_file(e, f[paths[i]]), f, paths, i + 1)

current_env(ds, f) ==
    read_paths(<<>>, f, sorted_paths(files_dict(ds, f, 1, <<>>)), 1)

-----------------------------------------------------------------------------
(* rearrange_bin_sbin *)

\* pathlib.Path(p) of a POSIX path: the root ('', '/' or, for exactly two
\* leading slashes, '//') and the components, empty and '.' ones dropped
Path(p) ==
    [root  |-> IF ~startswith(p, "/") THEN <<>>
               ELSE IF Len(p) >= 2 /\ p[2] = "/" /\ (Len(p) = 2 \/ p[3] # "/")
                 THEN <<"/", "/">>
               ELSE <<"/">>,
     comps |-> SelectSeq(split(p, "/"), LAMBDA c : c # <<>> /\ c # <<".">>)]

\* Path.parts
parts(P) == IF P.root = <<>> THEN P.comps ELSE <<P.root>> \o P.comps

\* Path(*parts) for parts that are a root followed by plain components
from_parts(ps) ==
    IF ps # <<>> /\ ps[1] \in {<<"/">>, <<"/", "/">>}
      THEN [root |-> ps[1], comps |-> Tail(ps)]
      ELSE [root |-> <<>>, comps |-> ps]

\* Path.as_posix()
as_posix(P) ==
    IF P.root = <<>> /\ P.comps = <<>> THEN <<".">>
    ELSE P.root \o join(P.comps, "/")

\* tuple.index(x) / list.index(x, from): the first position, 0 for none
RECURSIVE index(_, _, _)
index(items, x, from) ==
    IF from > Len(items) THEN 0
    ELSE IF items[from] = x THEN from
    ELSE index(items, x, from + 1)

\* the sibling of an item that has an sbin part: its first sbin replaced by bin
bin_sibling(item) ==
    LET ps  == parts(item)
        ind == index(ps, <<"sbin">>, 1)
    IN from_parts(SubSeq(ps, 1, ind - 1) \o << <<"bin">> >>
                    \o SubSeq(ps, ind + 1, Len(ps)))

\* faulty variant of swap_pass: the sibling is looked for in the whole list,
\* not only after i
RECURSIVE swap_pass_anywhere(_, _)
swap_pass_anywhere(items, i) ==
    IF i > Len(items) THEN items
    ELSE IF index(parts(items[i]), <<"sbin">>, 1) = 0
      THEN swap_pass_anywhere(items, i + 1)
    ELSE
      LET j == index(items, bin_sibling(items[i]), 1) IN
      IF j = 0 THEN swap_pass_anywhere(items, i + 1)
      ELSE swap_pass_anywhere([items EXCEPT ![i] = items[j], ![j] = items[i]],
                              i + 1)

\* the body of "for i in range(len(items))", from index i on (1-based)
RECURSIVE swap_pass(_, _)
swap_pass(items, i) ==
    IF i > Len(items) THEN items
    ELSE IF index(parts(items[i]), <<"sbin">>, 1) = 0
      THEN swap_pass(items, i + 1)
    ELSE
      LET j == index(items, bin_sibling(items[i]), i + 1) IN
      IF j = 0 THEN swap_pass(items, i + 1)
      ELSE swap_pass([items EXCEPT ![i] = items[j], ![j] = items[i]], i + 1)

rearrange_bin_sbin(p) ==
    LET segs  == split(p, ":")
        items == [k \in 1..Len(segs) |-> Path(segs[k])]
        done  == swap_pass(items, 1)
    IN join([k \in 1..Len(done) |-> as_posix(done[k])], ":")

-----------------------------------------------------------------------------
(* rearrange_path *)

\* dirs[-1] + '/90-rearrange-path.conf'
target(ds) == <<ds[Len(ds)], "90-rearrange-path.conf">>

\* what print('PATH={}'.format(new), file=f) leaves in the file: one line
output(value) == << <<"PATH", "=">> \o value >>

\* env = current_env(dirs)
ReadEnv ==
    /\ pc = "start"
    /\ env' = current_env(dirs, fs)
    /\ pc' = "get_path"
    /\ UNCHANGED <<dirs, fs, path, new, writes, tmpl>>

\* faulty variant of GetPath: "if path is None: return", an empty PATH goes on
GetPath_none_only ==
    /\ pc = "get_path"
    /\ path' = IF <<"PATH">> \in DOMAIN env THEN <<env[<<"PATH">>]>> ELSE <<>>
    /\ pc' = IF path' = <<>> THEN "done" ELSE "rearrange"
    /\ UNCHANGED <<dirs, fs, env, new, writes, tmpl>>

\* path = env.get('PATH', None); if not path: return
\* (None is <<>>, a str s is <<s>>)
GetPath ==
    /\ pc = "get_path"
    /\ path' = IF <<"PATH">> \in DOMAIN env THEN <<env[<<"PATH">>]>> ELSE <<>>
    /\ pc' = IF path' = <<>> \/ path'[1] = <<>> THEN "done" ELSE "rearrange"
    /\ UNCHANGED <<dirs, fs, env, new, writes, tmpl>>

\* new = rearrange_bin_sbin(path); if new == path: return
Rearrange ==
    /\ pc = "rearrange"
    /\ new' = <<rearrange_bin_sbin(path[1])>>
    /\ pc' = IF new' = path THEN "done" ELSE "write"
    /\ UNCHANGED <<dirs, fs, env, path, writes, tmpl>>

\* with open(dirs[-1] + '/90-rearrange-path.conf', 'w') as f: print(...)
Write ==
    /\ pc = "write"
    /\ fs' = (target(dirs) :> output(new[1])) @@ fs
    /\ writes' = Append(writes, [file |-> target(dirs), text |-> output(new[1])])
    /\ pc' = "done"
    /\ UNCHANGED <<dirs, env, path, new, tmpl>>

Next == ReadEnv \/ GetPath \/ Rearrange \/ Write

-----------------------------------------------------------------------------
(* The inputs: the directory list and the files found when the program starts *)

MaxSegs   == 3   \* segments of a PATH value
MaxPieces == 3   \* pieces of a templated value
MaxLines  == 3   \* physical lines of a continuation file

\* all sequences over S of length lo..hi
SeqsOf(S, lo, hi) == UNION {[1..n -> S] : n \in lo..hi}

NoTmpl == [name |-> <<>>, pieces |-> <<>>]

Idle(ds, f, t) ==
    /\ dirs = ds
    /\ fs = f
    /\ tmpl = t
    /\ pc = "start"
    /\ env = <<>>
    /\ path = <<>>
    /\ new = <<>>
    /\ writes = <<>>

\* PATH segments: plain, with a trailing or a doubled slash, empty, the
\* current directory, with two sbin components
SegPool ==
    { <<"/", "sbin">>, <<"/", "bin">>, <<"/", "bin", "/">>,
      <<"sbin", "/", "sbin">>, <<"bin", "/", "sbin">>, <<"bin", "/", "bin">>,
      <<>>, <<".">>, <<"/", "x">>, <<"bin", "/", "/", "bin">> }

\* one directory, one file, one line: PATH=<segments joined by ":">
InitPath ==
    \E segs \in SeqsOf(SegPool, 1, MaxSegs) :
        Idle(<<"etc">>,
             <<"etc", "50-a.conf">> :> output(join(segs, ":")),
             NoTmpl)

\* the pieces of a templated value: literal text, $X, ${X}, \$X
Pieces ==
    { [k |-> "lit",   s |-> <<":", "/", "y">>],
      [k |-> "lit",   s |-> <<"A">>],
      [k |-> "var",   s |-> <<"A">>],
      [k |-> "var",   s |-> <<"PATH">>],
      [k |-> "brace", s |-> <<"A">>],
      [k |-> "esc",   s |-> <<"A">>] }

Render(piece) ==
    CASE piece.k = "lit"   -> piece.s
      [] piece.k = "var"   -> <<"$">> \o piece.s
      [] piece.k = "brace" -> <<"$", "{">> \o piece.s \o <<"}">>
      [] piece.k = "esc"   -> <<"\\", "$">> \o piece.s

RECURSIVE RenderAll(_)
RenderAll(ps) == IF ps = <<>> THEN <<>> ELSE Render(ps[1]) \o RenderAll(Tail(ps))

\* a $X piece is not followed by literal word characters, which would
\* lengthen its name
Separated(ps) ==
    \A i \in 1..(Len(ps) - 1) :
        ~(ps[i].k = "var" /\ ps[i + 1].k = "lit" /\ IsWord(ps[i + 1].s[1]))

\* the lines before the templated one, with the environment they leave
PreCases ==
    { [lines |-> <<>>, env |-> <<>>],
      [lines |-> << <<"A", "=", "/", "x">> >>,
       env   |-> <<"A">> :> <<"/", "x">>],
      [lines |-> << <<"A", "=", "$">> >>,
       env   |-> <<"A">> :> <<"$">>],
      [lines |-> << <<"PATH", "=", "/", "x">> >>,
       env   |-> <<"PATH">> :> <<"/", "x">>] }

\* one file: some earlier lines, then NAME=<rendered pieces>
InitSubst ==
    \E c \in PreCases, name \in {<<"PATH">>, <<"K">>},
       ps \in SeqsOf(Pieces, 1, MaxPieces) :
        /\ Separated(ps)
        /\ Idle(<<"etc">>,
                <<"etc", "50-a.conf">> :>
                    (c.lines \o <<name \o <<"=">> \o RenderAll(ps)>>),
                [name |-> name, pieces |-> ps])

\* physical lines: continued, plain, comment, with trailing blanks, empty
LinePool ==
    { <<"K", "=", "x", "\\">>, <<"A">>, <<"#", "A">>,
      <<"K", "=", "x", " ", "\\", " ">>, <<>>, <<"A", "=", "x">>,
      <<"#", "\\">> }

InitLines ==
    \E file \in SeqsOf(LinePool, 0, MaxLines) :
        Idle(<<"etc">>, <<"etc", "50-a.conf">> :> file, NoTmpl)

\* whole files for the layered directories
FilePool ==
    { << <<"K", "=", "x">> >>,
      << <<"K", "=", "A">> >>,
      << <<"A", "=", "x">> >>,
      << <<"K", "=", "$", "K", "x">> >> }

DirLists == { <<>>, <<"lib">>, <<"lib", "etc">>, <<"etc", "lib">> }

Slots == {"lib", "etc"} \X {"50-a.conf", "60-b.conf"}

\* two directories, each with any of two *.conf names, and a file that is
\* no *.conf
InitLayers ==
    \E ds \in DirLists, present \in SUBSET Slots :
      \E f \in [present -> FilePool] :
        Idle(ds, f @@ (<<"etc", "README">> :> << <<"K", "=", "bin">> >>), NoTmpl)

\* files that set a PATH to rearrange, some with text left for a later reader
PathFiles ==
    { << <<"PATH", "=", "/", "sbin", ":", "/", "bin">> >>,
      << <<"PATH", "=", "/", "bin", ":", "/", "sbin">> >>,
      << <<"A", "=", "$">>,
         <<"PATH", "=", "/", "sbin", ":", "/", "bin", ":", "$", "{", "A", "}", "A">> >>,
      << <<"PATH", "=", "/", "sbin", ":", "/", "bin", ":", "x", " ", "$", "K">> >>,
      << <<"PATH", "=", "/", "sbin", ":", "/", "bin", ":", "\\", "$", "A">> >>,
      << <<"PATH", "=">> >>,
      << <<"K", "=", "x">> >> }

\* an override left by an earlier run, and a file read after it
OldFiles ==
    { << <<"PATH", "=", "/", "x">> >>,
      << <<"PATH", "=", "$", "PATH", ":", "/", "bin">> >> }

InitOverride ==
    \E ds \in {<<"lib", "etc">>, <<"etc", "lib">>, <<"etc">>},
       base \in PathFiles,
       old \in SUBSET ({"lib", "etc"} \X {"90-rearrange-path.conf"}),
       late \in SUBSET {<<"etc", "95-z.conf">>} :
      \E fo \in [old -> OldFiles], fl \in [late -> OldFiles] :
        Idle(ds, (<<"lib", "50-a.conf">> :> base) @@ fo @@ fl, NoTmpl)

Init == InitPath \/ InitSubst \/ InitLines \/ InitLayers \/ InitOverride

Spec == Init /\ [][Next]_vars

-----------------------------------------------------------------------------
(* Vocabulary of the properties *)

PATH == <<"PATH">>

\* the only file of a one-directory, one-file input
File == fs[<<"etc", "50-a.conf">>]

OneFile == dirs = <<"etc">> /\ DOMAIN fs \subseteq {<<"etc", "50-a.conf">>, <<"etc", "90-rearrange-path.conf">>}

\* position of a name in the order of the names
Rank(n) == CHOOSE k \in 1..Len(NameOrder) : NameOrder[k] = n

\* the *.conf files of the listed directories that no later directory of the
\* list shadows with a file of the same name
Effective(ds, f) ==
    {p \in DOMAIN f :
        /\ p[2] \notin {"README"}
        /\ \E i \in 1..Len(ds) :
              /\ ds[i] = p[1]
              /\ \A j \in (i + 1)..Len(ds) : <<ds[j], p[2]>> \notin DOMAIN f}

\* some line of the file starts with "k="
Assigns(file, k) ==
    \E n \in 1..Len(file) :
        /\ Len(file[n]) > Len(k)
        /\ SubSeq(file[n], 1, Len(k)) = k
        /\ file[n][Len(k) + 1] = "="

\* the text after "k=" on the last line of the file that starts with "k="
LastValue(file, k) ==
    LET n == CHOOSE m \in 1..Len(file) :
                 /\ Assigns(<<file[m]>>, k)
                 /\ \A m2 \in (m + 1)..Len(file) : ~Assigns(<<file[m2]>>, k)
    IN SubSeq(file[n], Len(k) + 2, Len(file[n]))

HasDollar(s) == \E n \in 1..Len(s) : s[n] = "$"

\* the segments of a PATH value, and the components of a segment
Segments(p) == split(p, ":")

HasSbin(seg) == \E c \in 1..Len(split(seg, "/")) : split(seg, "/")[c] = <<"sbin">>

\* a segment with its first sbin component replaced by bin
Sibling(seg) ==
    LET cs == split(seg, "/")
        k  == CHOOSE c \in 1..Len(cs) :
                  cs[c] = <<"sbin">> /\ \A b \in 1..(c - 1) : cs[b] # <<"sbin">>
    IN join([cs EXCEPT ![k] = <<"bin">>], "/")

\* no segment with an sbin component has its bin sibling at a later index
Ordered(p) ==
    LET r == Segments(p) IN
    \A i \in 1..Len(r), j \in 1..Len(r) :
        (HasSbin(r[i]) /\ r[j] = Sibling(r[i])) => j <= i

\* number of slashes a segment starts with
RECURSIVE LeadingSlashes(_)
LeadingSlashes(seg) ==
    IF seg # <<>> /\ seg[1] = "/" THEN 1 + LeadingSlashes(Tail(seg)) ELSE 0

\* a segment as pathlib writes it: not empty, at most two leading slashes,
\* no other doubled slash, no trailing slash, no "." component
Normal(seg) ==
    \/ seg \in {<<".">>, <<"/">>, <<"/", "/">>}
    \/ LET n    == LeadingSlashes(seg)
           body == SubSeq(seg, n + 1, Len(seg))
       IN /\ n <= 2
          /\ body # <<>>
          /\ \A c \in 1..Len(split(body, "/")) :
                split(body, "/")[c] \notin {<<>>, <<".">>}

-----------------------------------------------------------------------------
(* rearrange_bin_sbin *)

\* C1: rearranging the rearranged PATH gives the rearranged PATH again
\* (rearrange_bin_sbin is idempotent), for every PATH the program rearranges.
C1_Idempotent ==
    new # <<>> => rearrange_bin_sbin(new[1]) = new[1]

\* C2: in the rearranged PATH no segment with an sbin component stands before
\* its bin sibling: wherever the sibling occurs, it occurs at a smaller index.
C2_BinBeforeSbin ==
    new # <<>> =>
        LET r == Segments(new[1]) IN
        \A i \in 1..Len(r), j \in 1..Len(r) :
            (HasSbin(r[i]) /\ r[j] = Sibling(r[i])) => j < i

\* C9, as stated: a PATH in which no sbin segment has its bin sibling at a
\* later index is returned as it was written, whatever the spelling of its
\* segments (empty, trailing or doubled slashes), and nothing is written.
C9_OrderedUnchanged ==
    (new # <<>> /\ Ordered(path[1])) =>
        (new = path /\ pc = "done" /\ writes = <<>>)

\* C9, amended: a PATH whose segments are all spelled as pathlib spells them
\* and in which no sbin segment has its bin sibling at a later index is
\* returned identical, and the program stops without writing.
C9_NormalOrderedUnchanged ==
    (/\ new # <<>>
     /\ Ordered(path[1])
     /\ \A k \in 1..Len(Segments(path[1])) : Normal(Segments(path[1])[k]))
    => (new = path /\ pc = "done" /\ writes = <<>>)

\* a normal, ordered PATH with an sbin segment after its bin sibling went
\* through the rearrangement
C9_Witness ==
    /\ new # <<>>
    /\ new = path
    /\ pc = "done"
    /\ \A k \in 1..Len(Segments(path[1])) : Normal(Segments(path[1])[k])
    /\ \E i \in 1..Len(Segments(path[1])), j \in 1..Len(Segments(path[1])) :
          /\ j < i
          /\ HasSbin(Segments(path[1])[i])
          /\ Segments(path[1])[j] = Sibling(Segments(path[1])[i])

-----------------------------------------------------------------------------
(* current_env *)

\* the files with the shadowed ones, and those of unlisted directories, removed
Unshadowed(ds, f) == [p \in Effective(ds, f) |-> f[p]]

\* C3: of the files with one name only the one in the last listed directory
\* that has it is evaluated: the environment is the one read with every
\* shadowed file removed, and a key that only shadowed files assign is absent.
C3_ShadowedContributeNothing ==
    (pc # "start" /\ writes = <<>>) =>
        /\ env = current_env(dirs, Unshadowed(dirs, fs))
        /\ \A k \in {<<"A">>, <<"K">>, PATH} :
              k \in DOMAIN env =>
                  \E p \in Effective(dirs, fs) : Assigns(fs[p], k)

\* a name in both directories, the shadowed file alone assigning A, the
\* shadowing one assigning K
C3_Witness ==
    /\ pc = "done"
    /\ writes = <<>>
    /\ dirs = <<"lib", "etc">>
    /\ <<"lib", "50-a.conf">> \in DOMAIN fs
    /\ <<"etc", "50-a.conf">> \in DOMAIN fs
    /\ Assigns(fs[<<"lib", "50-a.conf">>], <<"A">>)
    /\ \A p \in DOMAIN fs : p # <<"lib", "50-a.conf">> => ~Assigns(fs[p], <<"A">>)
    /\ fs[<<"etc", "50-a.conf">>] = << <<"K", "=", "x">> >>
    /\ <<"A">> \notin DOMAIN env
    /\ env[<<"K">>] = <<"x">>

\* a file of plain lines: no comment, no continuation
PlainFile(file) ==
    \A n \in 1..Len(file) : \A m \in 1..Len(file[n]) : file[n][m] \notin {"#", "\\"}

\* C8: the effective files are evaluated in the order of their names alone:
\* a key takes the value of the last assignment in the effective file of
\* greatest name that assigns it (a value without "$"), whichever directory
\* that file is in.
C8_OrderByBasename ==
    (/\ pc # "start"
     /\ writes = <<>>
     /\ \A p \in Effective(dirs, fs) : PlainFile(fs[p])) =>
        \A k \in {<<"A">>, <<"K">>, PATH} :
          \A q \in Effective(dirs, fs) :
            (/\ Assigns(fs[q], k)
             /\ ~HasDollar(LastValue(fs[q], k))
             /\ \A r \in Effective(dirs, fs) :
                   Rank(r[2]) > Rank(q[2]) => ~Assigns(fs[r], k))
            => (k \in DOMAIN env /\ env[k] = rstrip(LastValue(fs[q], k)))

\* the file of greater name is in the earlier directory, the other in the
\* later one, and they give K different values
C8_Witness ==
    /\ pc = "done"
    /\ dirs = <<"lib", "etc">>
    /\ DOMAIN fs = {<<"lib", "60-b.conf">>, <<"etc", "50-a.conf">>, <<"etc", "README">>}
    /\ fs[<<"lib", "60-b.conf">>] = << <<"K", "=", "A">> >>
    /\ fs[<<"etc", "50-a.conf">>] = << <<"K", "=", "x">> >>
    /\ env[<<"K">>] = <<"A">>

-----------------------------------------------------------------------------
(* rearrange_path *)

\* the merged PATH is set, not empty, and changed by the rearrangement
MustWrite ==
    /\ PATH \in DOMAIN env
    /\ env[PATH] # <<>>
    /\ rearrange_bin_sbin(env[PATH]) # env[PATH]

\* C4: the program writes if and only if the merged PATH is not empty and the
\* rearrangement changes it; then it makes one write, which replaces
\* 90-rearrange-path.conf of the last directory by the line PATH=<rearranged>
\* and leaves every other file alone; otherwise no file changes.
C4_WriteIffChanged ==
    [][ /\ (fs' # fs \/ writes' # writes) =>
            /\ writes = <<>>
            /\ MustWrite
            /\ LET file == <<dirs[Len(dirs)], "90-rearrange-path.conf">>
                   text == << <<"PATH", "=">> \o rearrange_bin_sbin(env[PATH]) >>
               IN /\ writes' = <<[file |-> file, text |-> text]>>
                  /\ DOMAIN fs' = DOMAIN fs \cup {file}
                  /\ fs'[file] = text
                  /\ \A p \in DOMAIN fs \ {file} : fs'[p] = fs[p]
        /\ (pc # "done" /\ pc' = "done") => (Len(writes') = 1 <=> MustWrite)
      ]_vars

\* a run over two directories that replaced an override found in the last one
C4_Witness ==
    /\ pc = "done"
    /\ Len(dirs) = 2
    /\ Len(writes) = 1
    /\ writes[1].file = <<dirs[2], "90-rearrange-path.conf">>
    /\ fs[writes[1].file] = << <<"PATH", "=", "/", "bin", ":", "/", "bin", ":", "/", "sbin">> >>
    /\ <<"lib", "90-rearrange-path.conf">> \in DOMAIN fs
    /\ <<"etc", "90-rearrange-path.conf">> \in DOMAIN fs

\* C10: after a run that wrote the override, reading the same directories
\* again gives a PATH equal to the value written, unless an effective file
\* named after 90-rearrange-path.conf assigns PATH.
C10_RoundTrip ==
    (/\ pc = "done"
     /\ writes # <<>>
     /\ \A p \in Effective(dirs, fs) :
           Rank(p[2]) > Rank("90-rearrange-path.conf") => ~Assigns(fs[p], PATH))
    => LET again == current_env(dirs, fs) IN
       PATH \in DOMAIN again /\ again[PATH] = new[1]

-----------------------------------------------------------------------------
(* update_env_from_file *)

\* the environment left by the lines before the templated one
PreEnv ==
    (CHOOSE c \in PreCases : c.lines = SubSeq(File, 1, Len(File) - 1)).env

\* what a piece stands for in an environment: a token, the value its name
\* has there ('' when unset); anything else, itself
Meaning(piece, e) ==
    CASE piece.k \in {"var", "brace"} ->
             IF piece.s \in DOMAIN e THEN e[piece.s] ELSE <<>>
      [] piece.k = "lit" -> piece.s
      [] piece.k = "esc" -> <<"\\", "$">> \o piece.s

RECURSIVE MeaningAll(_, _)
MeaningAll(ps, e) ==
    IF ps = <<>> THEN <<>> ELSE Meaning(ps[1], e) \o MeaningAll(Tail(ps), e)

\* C5: the value assigned by NAME=VALUE is VALUE with each $X and ${X} not
\* behind a backslash replaced by what X held just before the assignment
\* ('' when unset, the old value of NAME for X = NAME), replacements taken as
\* they are; so PATH=/x then PATH=$PATH:/y leaves PATH = /x:/y.
C5_SubstitutionSeesOldEnv ==
    (tmpl.name # <<>> /\ pc # "start") =>
        /\ env = (tmpl.name :> MeaningAll(tmpl.pieces, PreEnv)) @@ PreEnv
        /\ (/\ File = << <<"PATH", "=", "/", "x">>,
                         <<"PATH", "=", "$", "PATH", ":", "/", "y">> >>)
           => env[PATH] = <<"/", "x", ":", "/", "y">>

\* PATH=/x then PATH=$PATH:/y has been read
C5_Witness ==
    /\ pc = "done"
    /\ tmpl.name = PATH
    /\ File = << <<"PATH", "=", "/", "x">>,
                 <<"PATH", "=", "$", "PATH", ":", "/", "y">> >>
    /\ env[PATH] = <<"/", "x", ":", "/", "y">>

\* C6, as stated: NAME=\$A leaves NAME with the text $A, whatever A holds.
C6_EscapedDollarIsDollar ==
    (tmpl.pieces = <<[k |-> "esc", s |-> <<"A">>]>> /\ pc # "start") =>
        env[tmpl.name] = <<"$", "A">>

\* C6, amended: NAME=\$A is not substituted, whatever A holds, and leaves NAME
\* with the text \$A, the backslash kept.
C6_EscapedDollarKeepsBackslash ==
    (tmpl.pieces = <<[k |-> "esc", s |-> <<"A">>]>> /\ pc # "start") =>
        env[tmpl.name] = <<"\\", "$", "A">>

\* K=\$A has been read while A held /x
C6_Witness ==
    /\ pc = "done"
    /\ tmpl = [name |-> <<"K">>, pieces |-> <<[k |-> "esc", s |-> <<"A">>]>>]
    /\ <<"A">> \in DOMAIN env
    /\ env[<<"A">>] = <<"/", "x">>
    /\ env[<<"K">>] = <<"\\", "$", "A">>

\* the lines that are no comments, without their trailing blanks
NonComment(file) ==
    LET kept == SelectSeq(file, LAMBDA l : l = <<>> \/ l[1] # "#") IN
    [n \in 1..Len(kept) |-> rstrip(kept[n])]

Continued(l) == l # <<>> /\ l[Len(l)] = "\\"

\* the last line of the logical line that starts at line a
LogicalEnd(nc, a) ==
    IF \E b \in a..Len(nc) : ~Continued(nc[b])
      THEN CHOOSE b \in a..Len(nc) :
               ~Continued(nc[b]) /\ \A c \in a..(b - 1) : Continued(nc[c])
      ELSE Len(nc)

\* lines a..b joined, the backslash that continues a line dropped
RECURSIVE Joined(_, _, _)
Joined(nc, a, b) ==
    IF a > b THEN <<>>
    ELSE (IF Continued(nc[a]) THEN SubSeq(nc[a], 1, Len(nc[a]) - 1) ELSE nc[a])
           \o Joined(nc, a + 1, b)

\* the environment after the logical lines from line a on
RECURSIVE Evaluated(_, _, _)
Evaluated(e, nc, a) ==
    IF a > Len(nc) THEN e
    ELSE LET b == LogicalEnd(nc, a) IN
         Evaluated(handle_line(e, rstrip(Joined(nc, a, b))), nc, b + 1)

KxCont == <<"K", "=", "x", "\\">>

\* C7: a file is evaluated logical line by logical line: the lines that are
\* no comments, each joined to the next while it ends in a backslash, the
\* last one evaluated even when the file ends in a continuation; comment
\* lines change nothing (K=x\ then A gives K=xA, with or without a comment
\* between them).
C7_LogicalLines ==
    (OneFile /\ pc # "start" /\ <<"etc", "90-rearrange-path.conf">> \notin DOMAIN fs) =>
        /\ env = Evaluated(<<>>, NonComment(File), 1)
        /\ env = update_env_from_file(<<>>, SelectSeq(File, LAMBDA l : l = <<>> \/ l[1] # "#"))
        /\ File = <<KxCont, <<"A">>>> => env = (<<"K">> :> <<"x", "A">>)
        /\ File = <<KxCont, <<"#", "A">>, <<"A">>>> => env = (<<"K">> :> <<"x", "A">>)
        /\ File = <<KxCont, <<"#", "\\">>>> => env = (<<"K">> :> <<"x">>)
        /\ File = <<KxCont>> => env = (<<"K">> :> <<"x">>)

\* K=x\, a comment, then A has been read
C7_Witness ==
    /\ pc = "done"
    /\ File = <<KxCont, <<"#", "A">>, <<"A">>>>
    /\ env = (<<"K">> :> <<"x", "A">>)

=============================================================================
